---------------------------- MODULE Spec2Model ----------------------------
(***************************************************************************)
(* A model of gost's Redis driver (package db) and of the store it talks   *)
(* to: the key schema, the four Insert pipelines (RedHat, Debian, Ubuntu,  *)
(* Microsoft), the point / multi readers and the filtered readers.         *)
(*                                                                         *)
(* The store is one Redis database: a map from key to a hash or a sorted   *)
(* set, and a time-to-live per key.  A pipeline is a queue of commands the *)
(* server applies one at a time, in order, not atomically; it can break at *)
(* any point (connection error), in which case Exec returns the error.     *)
(***************************************************************************)
EXTENDS Naturals, Sequences, FiniteSets, TLC

VARIABLES
    db,     \* the store: [data : key -> value, ttl : key -> seconds left (0 = persistent)]
    call,   \* the Insert call in flight (or just returned), "idle" when none
    ret,    \* what the last reader call returned, for the store as it is now
    written, \* number of records handed to writer calls so far
    hist,   \* history: has a key expired, has a batch been cut short
    cmd     \* the fetch command that is running: its position and what it has done

vars == <<db, call, ret, written, hist, cmd>>

-----------------------------------------------------------------------------
(* Bounds of the model *)

MaxWrites == 2      \* records and products handed to writers per run, over all calls
MaxExpire == 2      \* the positive retention (viper "expire"), in seconds
MaxIDs == 2         \* identifiers in the list handed to a multi lookup

-----------------------------------------------------------------------------
(* Key schema: src/unnamed/part_000 lines 49-57 *)

hashKeyPrefix == "CVE#"
zindRedHatPrefix == "CVE#R#"
zindDebianPrefix == "CVE#D#"
zindUbuntuPrefix == "CVE#U#"
zindMicrosoftKBIDPrefix == "CVE#K#"
zindMicrosoftProductIDPrefix == "CVE#P#"

Vendors == {"RedHat", "Debian", "Ubuntu", "Microsoft"}

CveIDs == {"c1", "c2"}
PkgNames == {"p1", "p2"}
KBIDs == {"k1", "k2"}

Range(s) == {s[i] : i \in 1..Len(s)}

-----------------------------------------------------------------------------
(* Vendor documents (package models): only the fields the driver reads *)

RedhatCVE(name, states) == [Name |-> name, PackageState |-> states]
DebianCVE(id, pkgs) == [CveID |-> id, Package |-> pkgs]
UbuntuCVE(id, patches) == [Candidate |-> id, Patches |-> patches]
MicrosoftCVE(id, kbs) == [CveID |-> id, KBIDs |-> kbs]

\* The zero value of each struct: what `var redhat models.RedhatCVE` holds
ZeroRedhat == RedhatCVE("", <<>>)
ZeroDebian == DebianCVE("", <<>>)
ZeroUbuntu == UbuntuCVE("", <<>>)
ZeroMicrosoft == MicrosoftCVE("", <<>>)

Cpe(major) == "cpe:/o:redhat:enterprise_linux:" \o major

\* Sample payloads: for every vendor one document without sub-entries and one
\* with sub-entries for both packages, several releases and several statuses.
RedhatStates ==
    { <<>>,
      << [Cpe |-> Cpe("8"), PackageName |-> "p1", FixState |-> "Will not fix"],
         [Cpe |-> Cpe("8"), PackageName |-> "p1", FixState |-> "Affected"],
         [Cpe |-> Cpe("8"), PackageName |-> "p2", FixState |-> "Not affected"],
         [Cpe |-> Cpe("8"), PackageName |-> "p2", FixState |-> "New"] >> }

DebianPackages ==
    { <<>>,
      << [PackageName |-> "p1",
          Release |-> << [ProductName |-> "bookworm", Status |-> "open"],
                         [ProductName |-> "bookworm", Status |-> "resolved"] >>],
         [PackageName |-> "p2",
          Release |-> << [ProductName |-> "bullseye", Status |-> "open"] >>] >> }

UbuntuPatches ==
    { <<>>,
      << [PackageName |-> "p1",
          ReleasePatches |-> << [ReleaseName |-> "focal", Status |-> "needed"],
                                [ReleaseName |-> "focal", Status |-> "released"] >>],
         [PackageName |-> "p2",
          ReleasePatches |-> << [ReleaseName |-> "jammy", Status |-> "pending"] >>] >> }

MicrosoftKBs ==
    { <<>>, << [KBID |-> "k1"], [KBID |-> "k2"] >> }

MicrosoftProduct(id, name) == [ProductID |-> id, ProductName |-> name]

MicrosoftProducts == {MicrosoftProduct("pr1", "Windows 10")}

RedhatCVEs == {RedhatCVE(id, s) : id \in CveIDs, s \in RedhatStates}
DebianCVEs == {DebianCVE(id, p) : id \in CveIDs, p \in DebianPackages}
UbuntuCVEs == {UbuntuCVE(id, p) : id \in CveIDs, p \in UbuntuPatches}
MicrosoftCVEs == {MicrosoftCVE(id, k) : id \in CveIDs, k \in MicrosoftKBs}

\* All lists of at most n elements of S
SeqsUpTo(S, n) == UNION {[1..m -> S] : m \in 0..n}

-----------------------------------------------------------------------------
(* The retention: expire is a uint (64 bits), a duration is an int64 of     *)
(* nanoseconds.  A word is its WordLen bytes, the least significant first.  *)

Byte == 256
WordLen == 8
Thousand == 1000

\* The word of a small number
RECURSIVE Bytes(_, _)
Bytes(n, len) == IF len = 0 THEN <<>> ELSE <<n % Byte>> \o Bytes(n \div Byte, len - 1)
Word(n) == Bytes(n, WordLen)

\* time.Second, in nanoseconds
Second == Word(Thousand * Thousand * Thousand)

\* a * b of two uint: the product modulo 2^64
RECURSIVE MulCol(_, _, _, _)
MulCol(a, b, k, i) == IF i = 0 THEN 0 ELSE a[i] * b[k + 1 - i] + MulCol(a, b, k, i - 1)
RECURSIVE MulFrom(_, _, _, _)
MulFrom(a, b, k, carry) ==
    IF k > WordLen THEN <<>>
    ELSE LET t == MulCol(a, b, k, k) + carry
         IN  <<t % Byte>> \o MulFrom(a, b, k + 1, t \div Byte)
Mul(a, b) == MulFrom(a, b, 1, 0)

\* time.Duration(expire*uint(time.Second)): the same 64 bits, read as signed
Duration(expire) == Mul(expire, Second)
IsNegative(dur) == dur[WordLen] >= Byte \div 2

\* d / m for a word d >= 0 and a small m, by long division
RECURSIVE DivFrom(_, _, _, _)
DivFrom(d, m, i, rem) ==
    IF i = 0 THEN <<>>
    ELSE LET t == rem * Byte + d[i]
         IN  DivFrom(d, m, i - 1, t % m) \o <<t \div m>>
Div(d, m) == DivFrom(d, m, WordLen, 0)

\* The number of a word; Far stands for every number of more than Far
Far == 16777216
IsFar(w) == \E i \in 4..WordLen : w[i] # 0
ToNat(w) == IF IsFar(w) THEN Far ELSE w[1] + Byte * w[2] + Byte * Byte * w[3]

\* go-redis formatSec(dur), the seconds EXPIRE is sent with: 1 for a positive
\* duration of less than a second, else dur / time.Second.  A result <= 0 is
\* given as 0: EXPIRE treats every timeout <= 0 alike.
formatSec(dur) ==
    LET secs == Div(Div(Div(dur, Thousand), Thousand), Thousand)
    IN  IF IsNegative(dur) \/ dur = Word(0) THEN 0
        ELSE IF secs = Word(0) THEN 1
        ELSE ToNat(secs)

\* The retention settings of a process (viper "expire"): none, MaxExpire
\* seconds, 9223372037 seconds and 18446744074 seconds
Retentions ==
    {<<0, 0, 0, 0, 0, 0, 0, 0>>, <<MaxExpire, 0, 0, 0, 0, 0, 0, 0>>,
     <<5, 125, 193, 37, 2, 0, 0, 0>>, <<10, 250, 130, 75, 4, 0, 0, 0>>}

-----------------------------------------------------------------------------
(* Record codec: json.Marshal / json.Unmarshal of a vendor document *)

\* json.Marshal(doc): the text of the document
Marshal(doc) == [json |-> TRUE, text |-> doc]

\* A field value that is no JSON document (written by something else)
Garbage == [json |-> FALSE, text |-> <<>>]

\* json.Unmarshal([]byte(j), &doc) returns no error
IsJSON(j) == j.json

\* json.Unmarshal([]byte(j), &doc): the decoded document, when IsJSON(j)
Unmarshal(j) == j.text

-----------------------------------------------------------------------------
(* The store: Redis commands on db = [data, ttl] *)

Exists(d, key) == key \in DOMAIN d.data

NewHash == [t |-> "hash", f |-> <<>>]
NewZSet == [t |-> "zset", m |-> {}]

Put(f, k, v) == [x \in (DOMAIN f) \cup {k} |-> IF x = k THEN v ELSE f[x]]

\* (a bug to test the properties with: the hash is replaced by the one field)
HSetReplacesHash(d, key, field, value) ==
    [data |-> Put(d.data, key, [t |-> "hash", f |-> Put(<<>>, field, value)]),
     ttl  |-> IF Exists(d, key) THEN d.ttl ELSE Put(d.ttl, key, 0)]

\* (a bug to test the properties with: HSETNX, an existing field is kept)
HSetKeepsOld(d, key, field, value) ==
    LET old == IF Exists(d, key) THEN d.data[key] ELSE [t |-> "hash", f |-> <<>>]
    IN  [data |-> Put(d.data, key,
                      [old EXCEPT !.f = IF field \in DOMAIN old.f THEN old.f
                                        ELSE Put(old.f, field, value)]),
         ttl  |-> IF Exists(d, key) THEN d.ttl ELSE Put(d.ttl, key, 0)]

\* HSET key field value: creates the hash when the key is absent (persistent)
HSet(d, key, field, value) ==
    LET old == IF Exists(d, key) THEN d.data[key] ELSE NewHash
    IN  [data |-> Put(d.data, key, [old EXCEPT !.f = Put(old.f, field, value)]),
         ttl  |-> IF Exists(d, key) THEN d.ttl ELSE Put(d.ttl, key, 0)]

\* ZADD key 0 member: creates the sorted set when the key is absent (persistent)
ZAdd(d, key, member) ==
    LET old == IF Exists(d, key) THEN d.data[key] ELSE NewZSet
    IN  [data |-> Put(d.data, key, [old EXCEPT !.m = old.m \cup {member}]),
         ttl  |-> IF Exists(d, key) THEN d.ttl ELSE Put(d.ttl, key, 0)]

Delete(d, key) ==
    [data |-> [k \in (DOMAIN d.data) \ {key} |-> d.data[k]],
     ttl  |-> [k \in (DOMAIN d.ttl) \ {key} |-> d.ttl[k]]]

\* (a bug to test the properties with: EXPIRE adds to the timeout a key has)
ExpireExtends(d, key, seconds) ==
    IF ~Exists(d, key) THEN d
    ELSE IF seconds = 0 THEN Delete(d, key)
    ELSE [d EXCEPT !.ttl[key] = d.ttl[key] + seconds]

\* EXPIRE key seconds: no effect on an absent key; a timeout <= 0 deletes the key
Expire(d, key, seconds) ==
    IF ~Exists(d, key) THEN d
    ELSE IF seconds = 0 THEN Delete(d, key)
    ELSE [d EXCEPT !.ttl[key] = seconds]

\* PERSIST key: no effect on an absent key
Persist(d, key) ==
    IF Exists(d, key) THEN [d EXCEPT !.ttl[key] = 0] ELSE d

\* HGETALL key: the field -> value map, empty for an absent key
HGetAll(d, key) == IF Exists(d, key) THEN d.data[key].f ELSE <<>>

\* ZRANGE key 0 -1: the members (all of score 0), as a set
ZRange(d, key) == IF Exists(d, key) THEN d.data[key].m ELSE {}

\* One second passes: every expiring key loses a second, a key at 0 is removed
Expiring(d) == {k \in DOMAIN d.data : d.ttl[k] = 1}
AfterSecond(d) ==
    LET keep == (DOMAIN d.data) \ Expiring(d)
    IN  [data |-> [k \in keep |-> d.data[k]],
         ttl  |-> [k \in keep |-> IF d.ttl[k] > 0 THEN d.ttl[k] - 1 ELSE 0]]

\* A queued command and its effect on the store
Cmd(op, key, a, b) == [op |-> op, key |-> key, a |-> a, b |-> b]

Apply(d, c) ==
    CASE c.op = "HSET"    -> HSet(d, c.key, c.a, c.b)
      [] c.op = "ZADD"    -> ZAdd(d, c.key, c.a)
      [] c.op = "EXPIRE"  -> Expire(d, c.key, c.a)
      [] c.op = "PERSIST" -> Persist(d, c.key)

-----------------------------------------------------------------------------
(* The write pipeline *)

CveKey(cveID) == hashKeyPrefix \o cveID

\* if expire > 0 { pipe.Expire(key, expire*time.Second) } else { pipe.Persist(key) }
Retain(key, expire) ==
    IF expire # Word(0)
    THEN Cmd("EXPIRE", key, formatSec(Duration(expire)), "")
    ELSE Cmd("PERSIST", key, "", "")

\* The HSet of the primary record and its retention
PrimaryCmds(cveID, field, doc, expire) ==
    << Cmd("HSET", CveKey(cveID), field, Marshal(doc)), Retain(CveKey(cveID), expire) >>

\* (a bug to test the properties with: only the first sub-entry is indexed)
IndexCmdsFirstOnly(prefix, names, member, expire) ==
    IF names = <<>> THEN <<>>
    ELSE << Cmd("ZADD", prefix \o Head(names), member, ""),
            Retain(prefix \o Head(names), expire) >>

\* (a bug to test the properties with: a record without sub-entries is indexed
\* under a default name)
IndexCmdsForNone(prefix, names, member, expire) ==
    IF names = <<>>
    THEN << Cmd("ZADD", prefix \o "p1", member, ""), Retain(prefix \o "p1", expire) >>
    ELSE [i \in 1..(2 * Len(names)) |->
             IF i % 2 = 1 THEN Cmd("ZADD", prefix \o names[(i + 1) \div 2], member, "")
             ELSE Retain(prefix \o names[i \div 2], expire)]

\* for _, pkg := range subs { ZAdd(prefix+name(pkg), member); retention }
RECURSIVE IndexCmds(_, _, _, _)
IndexCmds(prefix, names, member, expire) ==
    IF names = <<>> THEN <<>>
    ELSE << Cmd("ZADD", prefix \o Head(names), member, ""),
            Retain(prefix \o Head(names), expire) >>
         \o IndexCmds(prefix, Tail(names), member, expire)

RedhatPkgs(cve) == [i \in 1..Len(cve.PackageState) |-> cve.PackageState[i].PackageName]
DebianPkgs(cve) == [i \in 1..Len(cve.Package) |-> cve.Package[i].PackageName]
UbuntuPkgs(cve) == [i \in 1..Len(cve.Patches) |-> cve.Patches[i].PackageName]
MicrosoftKBIDs(cve) == [i \in 1..Len(cve.KBIDs) |-> cve.KBIDs[i].KBID]

\* The commands one record queues on its pipeline, per vendor
RedhatBatch(cve, expire) ==
    PrimaryCmds(cve.Name, "RedHat", cve, expire)
        \o IndexCmds(zindRedHatPrefix, RedhatPkgs(cve), cve.Name, expire)

DebianBatch(cve, expire) ==
    PrimaryCmds(cve.CveID, "Debian", cve, expire)
        \o IndexCmds(zindDebianPrefix, DebianPkgs(cve), cve.CveID, expire)

UbuntuBatch(cve, expire) ==
    PrimaryCmds(cve.Candidate, "Ubuntu", cve, expire)
        \o IndexCmds(zindUbuntuPrefix, UbuntuPkgs(cve), cve.Candidate, expire)

MicrosoftBatch(cve, expire) ==
    PrimaryCmds(cve.CveID, "Microsoft", cve, expire)
        \o IndexCmds(zindMicrosoftKBIDPrefix, MicrosoftKBIDs(cve), cve.CveID, expire)

\* The first pipeline of InsertMicrosoft: product id -> product name
RECURSIVE ProductBatch(_, _)
ProductBatch(products, expire) ==
    IF products = <<>> THEN <<>>
    ELSE << Cmd("ZADD", zindMicrosoftProductIDPrefix \o Head(products).ProductID,
                Head(products).ProductName, ""),
            Retain(zindMicrosoftProductIDPrefix \o Head(products).ProductID, expire) >>
         \o ProductBatch(Tail(products), expire)

\* (a bug to test the properties with: the index writes are queued before the
\* HSet of the primary record)
BatchIndexFirst(vendor, cve, expire) ==
    LET b == CASE vendor = "RedHat"    -> RedhatBatch(cve, expire)
               [] vendor = "Debian"    -> DebianBatch(cve, expire)
               [] vendor = "Ubuntu"    -> UbuntuBatch(cve, expire)
               [] vendor = "Microsoft" -> MicrosoftBatch(cve, expire)
    IN  SubSeq(b, 3, Len(b)) \o SubSeq(b, 1, 2)

Batch(vendor, cve, expire) ==
    CASE vendor = "RedHat"    -> RedhatBatch(cve, expire)
      [] vendor = "Debian"    -> DebianBatch(cve, expire)
      [] vendor = "Ubuntu"    -> UbuntuBatch(cve, expire)
      [] vendor = "Microsoft" -> MicrosoftBatch(cve, expire)

Idle == [pc |-> "idle"]

NoRet == [op |-> "none"]

\* (a bug to test the properties with: the product pipeline is never executed)
EnteredWithoutProductPass(vendor, cves, products, expire) ==
    [pc |-> "loop", vendor |-> vendor, expire |-> expire, cves |-> cves,
     products |-> products, k |-> 0, queue |-> <<>>, n |-> 0,
     issued |-> {}, broke |-> FALSE, err |-> FALSE, lost |-> FALSE]

\* A call that has just entered Insert*: nothing written.  InsertMicrosoft has
\* queued the product pipeline and calls Exec before the loop (for the other
\* vendors there are no products and the loop comes first).
Entered(vendor, cves, products, expire) ==
    LET batch == ProductBatch(products, expire)
    IN  [pc |-> IF vendor = "Microsoft" THEN "exec" ELSE "loop",
         vendor |-> vendor, expire |-> expire, cves |-> cves,
         products |-> products, k |-> 0, queue |-> batch, n |-> Len(batch),
         issued |-> {}, broke |-> FALSE, err |-> FALSE, lost |-> FALSE]

Begin(vendor, cves, products, expire) ==
    /\ call.pc = "idle"
    /\ ret = NoRet
    /\ written + Len(cves) + Len(products) <= MaxWrites
    /\ call' = Entered(vendor, cves, products, expire)
    /\ written' = written + Len(cves) + Len(products)
    /\ ret' = NoRet
    /\ UNCHANGED <<db, hist, cmd>>

InsertRedhat(cves, expire) == Begin("RedHat", cves, <<>>, expire)

InsertDebian(cves, expire) == Begin("Debian", cves, <<>>, expire)

InsertUbuntu(cves, expire) == Begin("Ubuntu", cves, <<>>, expire)

InsertMicrosoft(cves, products, expire) == Begin("Microsoft", cves, products, expire)

\* The head of `for _, cve := range cves`: the next record is marshalled and
\* its commands queued, or the loop is over and Insert returns nil
LoopNext ==
    /\ call.pc = "loop"
    /\ IF call.k < Len(call.cves)
       THEN LET batch == Batch(call.vendor, call.cves[call.k + 1], call.expire)
            IN  call' = [call EXCEPT !.pc = "exec",
                                     !.k = call.k + 1,
                                     !.queue = batch,
                                     !.n = Len(batch),
                                     !.issued = call.issued \cup {call.k + 1}]
       ELSE call' = [call EXCEPT !.pc = "done"]
    /\ ret' = NoRet
    /\ UNCHANGED <<db, written, hist, cmd>>

\* json.Marshal(cve) returns an error: Insert returns it, nothing is queued
MarshalFail ==
    /\ call.pc = "loop"
    /\ call.k < Len(call.cves)
    /\ call' = [call EXCEPT !.pc = "done", !.k = call.k + 1, !.broke = TRUE, !.err = TRUE]
    /\ ret' = NoRet
    /\ UNCHANGED <<db, written, hist, cmd>>

\* The command removes its key: an EXPIRE with a timeout <= 0
Removes(d, c) == c.op = "EXPIRE" /\ c.a = 0 /\ Exists(d, c.key)

\* pipe.Exec: the server applies the next queued command
ExecCmd ==
    /\ call.pc = "exec"
    /\ call.queue # <<>>
    /\ db' = Apply(db, Head(call.queue))
    /\ call' = [call EXCEPT !.queue = Tail(call.queue),
                            !.lost = call.lost \/ Removes(db, Head(call.queue))]
    /\ hist' = [hist EXCEPT !.expired = hist.expired \/ Removes(db, Head(call.queue))]
    /\ ret' = NoRet
    /\ UNCHANGED <<written, cmd>>

\* pipe.Exec returns nil: every command was applied and acknowledged
ExecOk ==
    /\ call.pc = "exec"
    /\ call.queue = <<>>
    /\ call' = [call EXCEPT !.pc = "loop"]
    /\ ret' = NoRet
    /\ UNCHANGED <<db, written, hist, cmd>>

\* (a bug to test the properties with: the error is dropped and the loop goes on)
ExecFailGoesOn ==
    /\ call.pc = "exec"
    /\ call.n > 0
    /\ call' = [call EXCEPT !.pc = "loop", !.queue = <<>>, !.broke = TRUE]
    /\ hist' = [hist EXCEPT !.cut = TRUE]
    /\ ret' = NoRet
    /\ UNCHANGED <<db, written, cmd>>

\* (a bug to test the properties with: Exec fails on an empty pipeline too)
ExecFailEmptyToo ==
    /\ call.pc = "exec"
    /\ call' = [call EXCEPT !.pc = "done", !.queue = <<>>, !.broke = TRUE, !.err = TRUE]
    /\ hist' = [hist EXCEPT !.cut = TRUE]
    /\ ret' = NoRet
    /\ UNCHANGED <<db, written, cmd>>

\* pipe.Exec returns an error: the connection broke after some (maybe all) of
\* the commands were applied; Insert returns the error.  An empty pipeline
\* is not sent, so it cannot fail.
ExecFail ==
    /\ call.pc = "exec"
    /\ call.n > 0
    /\ call' = [call EXCEPT !.pc = "done", !.queue = <<>>, !.broke = TRUE, !.err = TRUE]
    /\ hist' = [hist EXCEPT !.cut = TRUE]
    /\ ret' = NoRet
    /\ UNCHANGED <<db, written, cmd>>

\* Insert has returned to its caller
Return ==
    /\ call.pc = "done"
    /\ call' = Idle
    /\ ret' = NoRet
    /\ UNCHANGED <<db, written, hist, cmd>>

\* A second passes on the server.  An Insert call takes less than a second:
\* time passes between calls.
Tick ==
    /\ call.pc = "idle"
    /\ ret = NoRet
    /\ \E k \in DOMAIN db.data : db.ttl[k] > 0
    /\ db' = AfterSecond(db)
    /\ hist' = [hist EXCEPT !.expired = hist.expired \/ Expiring(db) # {}]
    /\ ret' = NoRet
    /\ UNCHANGED <<call, written, cmd>>

\* Another writer stores a value that is no JSON document under a vendor field
ForeignWrite(cveID, vendor) ==
    /\ call.pc = "idle"
    /\ ret = NoRet
    /\ written < MaxWrites
    /\ db' = HSet(db, CveKey(cveID), vendor, Garbage)
    /\ written' = written + 1
    /\ ret' = NoRet
    /\ UNCHANGED <<call, hist, cmd>>

-----------------------------------------------------------------------------
(* The fetch commands: cmd/microsoft.go fetchMicrosoft, cmd/redhatapi.go    *)
(* fetchRedHatAPI.  The driver is the interface db.NewDB returns: opening,  *)
(* GetFetchMeta and UpsertFetchMeta may fail, the fetchers may fail.        *)

\* No command is running
NotRun == [pc |-> "none"]

\* The command has entered its RunE function.  opened, fresh, fetched record
\* what the calls made so far returned; inserted is "no", "ok" or "err";
\* upserts counts the calls of UpsertFetchMeta; result is "", "nil" or "err".
Started(name, apikey, listOnly) ==
    [pc |-> "NewDB", name |-> name, apikey |-> apikey, listOnly |-> listOnly,
     opened |-> FALSE, fresh |-> FALSE, fetched |-> 0,
     inserts |-> 0, inserted |-> "no", upserts |-> 0, result |-> ""]

Returns(c, result) == [c EXCEPT !.pc = "returned", !.result = result]

\* A step of the command that touches neither the store nor an Insert call
CmdStep(at, next) ==
    /\ cmd.pc = at
    /\ cmd' = next
    /\ UNCHANGED <<db, call, ret, written, hist>>

\* fetchMicrosoft is run with or without an apikey
fetchMicrosoft(apikey) == CmdStep("none", Started("microsoft", apikey, FALSE))

\* fetchRedHatAPI is run with or without --list-only
fetchRedHatAPI(listOnly) == CmdStep("none", Started("redhatapi", FALSE, listOnly))

\* driver, locked, err := db.NewDB(...); if err != nil { return err }
NewDB(err) ==
    CmdStep("NewDB", IF err THEN Returns(cmd, "err")
                     ELSE [cmd EXCEPT !.pc = "GetFetchMeta", !.opened = TRUE])

\* fetchMeta, err := driver.GetFetchMeta(); if err != nil { return err }
GetFetchMeta(err, outdated) ==
    CmdStep("GetFetchMeta", IF err THEN Returns(cmd, "err")
                            ELSE [cmd EXCEPT !.pc = "OutDated", !.fresh = ~outdated])

\* (a bug to test the properties with: an outdated schema is not looked at)
OutDatedIgnored ==
    CmdStep("OutDated",
            [cmd EXCEPT !.pc = IF cmd.name = "microsoft" THEN "apikey" ELSE "list"])

\* if fetchMeta.OutDated() { return xerrors.New(...) }
OutDated ==
    CmdStep("OutDated",
            IF ~cmd.fresh THEN Returns(cmd, "err")
            ELSE [cmd EXCEPT !.pc = IF cmd.name = "microsoft" THEN "apikey" ELSE "list"])

\* if len(apiKey) == 0 { return errors.New("apikey is required") }
ApiKey ==
    CmdStep("apikey", IF ~cmd.apikey THEN Returns(cmd, "err")
                      ELSE [cmd EXCEPT !.pc = "details"])

\* entries, err := fetcher.ListAllRedhatCves(...); if err != nil { return err }
ListAllRedhatCves(err) ==
    CmdStep("list", IF err THEN Returns(cmd, "err")
                    ELSE [cmd EXCEPT !.pc = "listOnly", !.fetched = cmd.fetched + 1])

\* if viper.GetBool("list-only") { ... return nil }
ListOnly ==
    CmdStep("listOnly", IF cmd.listOnly THEN Returns(cmd, "nil")
                        ELSE [cmd EXCEPT !.pc = "details"])

\* cves, err := fetcher.RetrieveMicrosoftCveDetails(apiKey) /
\* fetcher.RetrieveRedhatCveDetails(resourceURLs); if err != nil { return err }
RetrieveCveDetails(err) ==
    CmdStep("details",
            IF err THEN Returns(cmd, "err")
            ELSE [cmd EXCEPT !.pc = IF cmd.name = "microsoft" THEN "bulletin" ELSE "Insert",
                             !.fetched = cmd.fetched + 1])

\* xls, err := fetcher.RetrieveMicrosoftBulletinSearch(); if err != nil { return err }
RetrieveMicrosoftBulletinSearch(err) ==
    CmdStep("bulletin", IF err THEN Returns(cmd, "err")
                        ELSE [cmd EXCEPT !.pc = "Insert", !.fetched = cmd.fetched + 1])

\* driver.InsertMicrosoft(cves, xls) / driver.InsertRedhat(cves) is called
CallInsert(cves, products, expire) ==
    /\ cmd.pc = "Insert"
    /\ IF cmd.name = "microsoft" THEN InsertMicrosoft(cves, products, expire)
       ELSE products = <<>> /\ InsertRedhat(cves, expire)

\* The Insert has returned: if err != nil { return err }
InsertReturned ==
    /\ cmd.pc = "Insert"
    /\ call.pc = "done"
    /\ call' = Idle
    /\ cmd' = IF call.err
              THEN Returns([cmd EXCEPT !.inserts = cmd.inserts + 1, !.inserted = "err"],
                           "err")
              ELSE [cmd EXCEPT !.pc = "UpsertFetchMeta", !.inserts = cmd.inserts + 1,
                               !.inserted = "ok"]
    /\ UNCHANGED <<db, ret, written, hist>>

\* if err := driver.UpsertFetchMeta(fetchMeta); err != nil { return err }; return nil
UpsertFetchMeta(err) ==
    CmdStep("UpsertFetchMeta",
            Returns([cmd EXCEPT !.upserts = cmd.upserts + 1], IF err THEN "err" ELSE "nil"))

\* The process of the command has ended
Exit == CmdStep("returned", NotRun)

-----------------------------------------------------------------------------
(* Codename tables (package db, not in src/): the entries the spec names *)

debVerCodename == [x \in {"12"} |-> "bookworm"]
ubuntuVerCodename == [x \in {"20.04"} |-> "focal"]

DebianMajors == {"12", "99"}
UbuntuMajors == {"20.04", "99"}
RedhatMajors == {"8", "9"}

-----------------------------------------------------------------------------
(* Point readers.  A *T result is [nil |-> TRUE] or [nil |-> FALSE, doc |-> T] *)

NilPtr == [nil |-> TRUE]
Ptr(doc) == [nil |-> FALSE, doc |-> doc]

Has(f, field) == field \in DOMAIN f

\* GetRedhat / GetMicrosoft: an absent field leaves the zero value in place
GetRedhat(d, cveID, err) ==
    IF err THEN NilPtr
    ELSE LET val == HGetAll(d, CveKey(cveID))
         IN  IF Has(val, "RedHat")
             THEN IF IsJSON(val["RedHat"]) THEN Ptr(Unmarshal(val["RedHat"])) ELSE NilPtr
             ELSE Ptr(ZeroRedhat)

GetMicrosoft(d, cveID, err) ==
    IF err THEN NilPtr
    ELSE LET val == HGetAll(d, CveKey(cveID))
         IN  IF Has(val, "Microsoft")
             THEN IF IsJSON(val["Microsoft"]) THEN Ptr(Unmarshal(val["Microsoft"])) ELSE NilPtr
             ELSE Ptr(ZeroMicrosoft)

\* (a bug to test the properties with: an absent field gives the zero document)
GetDebianZero(d, cveID, err) ==
    IF err THEN NilPtr
    ELSE LET val == HGetAll(d, CveKey(cveID))
         IN  IF ~Has(val, "Debian") THEN Ptr(ZeroDebian)
             ELSE IF IsJSON(val["Debian"]) THEN Ptr(Unmarshal(val["Debian"])) ELSE NilPtr

\* GetDebian / GetUbuntu: an absent field returns nil
GetDebian(d, cveID, err) ==
    IF err THEN NilPtr
    ELSE LET val == HGetAll(d, CveKey(cveID))
         IN  IF ~Has(val, "Debian") THEN NilPtr
             ELSE IF IsJSON(val["Debian"]) THEN Ptr(Unmarshal(val["Debian"])) ELSE NilPtr

GetUbuntu(d, cveID, err) ==
    IF err THEN NilPtr
    ELSE LET val == HGetAll(d, CveKey(cveID))
         IN  IF ~Has(val, "Ubuntu") THEN NilPtr
             ELSE IF IsJSON(val["Ubuntu"]) THEN Ptr(Unmarshal(val["Ubuntu"])) ELSE NilPtr

GetOne(vendor, d, cveID, err) ==
    CASE vendor = "RedHat"    -> GetRedhat(d, cveID, err)
      [] vendor = "Debian"    -> GetDebian(d, cveID, err)
      [] vendor = "Ubuntu"    -> GetUbuntu(d, cveID, err)
      [] vendor = "Microsoft" -> GetMicrosoft(d, cveID, err)

-----------------------------------------------------------------------------
(* Multi readers.  A map result is [nil |-> TRUE] or [nil |-> FALSE, m |-> map] *)

NilMap == [nil |-> TRUE]
Map(m) == [nil |-> FALSE, m |-> m]

\* for _, cveID := range cveIDs { rs[cveID] = pipe.HGetAll(ctx, hashKeyPrefix+cveID) }
RECURSIVE QueueGets(_, _, _)
QueueGets(d, cveIDs, rs) ==
    IF cveIDs = <<>> THEN rs
    ELSE QueueGets(d, Tail(cveIDs), Put(rs, Head(cveIDs), HGetAll(d, CveKey(Head(cveIDs)))))

\* (a bug to test the properties with: a document that does not decode is skipped)
DecodeAllSkipsBad(rs, field, zero) ==
    Map([id \in {x \in DOMAIN rs : ~(Has(rs[x], field) /\ ~IsJSON(rs[x][field]))} |->
            IF Has(rs[id], field) THEN Unmarshal(rs[id][field]) ELSE zero])

\* The second loop of Get*Multi: any document that does not decode ends the
\* call with nil, whatever the order the map is ranged in
DecodeAll(rs, field, zero) ==
    IF \E id \in DOMAIN rs : Has(rs[id], field) /\ ~IsJSON(rs[id][field])
    THEN NilMap
    ELSE Map([id \in DOMAIN rs |->
                 IF Has(rs[id], field) THEN Unmarshal(rs[id][field]) ELSE zero])

GetRedhatMulti(d, cveIDs, err) ==
    IF err THEN NilMap ELSE DecodeAll(QueueGets(d, cveIDs, <<>>), "RedHat", ZeroRedhat)

\* (a bug to test the properties with: the field of another vendor is decoded)
GetMicrosoftMultiWrongField(d, cveIDs, err) ==
    IF err THEN NilMap ELSE DecodeAll(QueueGets(d, cveIDs, <<>>), "RedHat", ZeroMicrosoft)

GetMicrosoftMulti(d, cveIDs, err) ==
    IF err THEN NilMap ELSE DecodeAll(QueueGets(d, cveIDs, <<>>), "Microsoft", ZeroMicrosoft)

GetMany(vendor, d, cveIDs, err) ==
    CASE vendor = "RedHat"    -> GetRedhatMulti(d, cveIDs, err)
      [] vendor = "Microsoft" -> GetMicrosoftMulti(d, cveIDs, err)

MultiVendors == {"RedHat", "Microsoft"}

-----------------------------------------------------------------------------
(* Filtered readers *)

\* for _, rel := range pkg.Release { if rel.ProductName == codeName && rel.Status == fixStatus }
RECURSIVE DebianRels(_, _, _)
DebianRels(rels, codeName, fixStatus) ==
    IF rels = <<>> THEN <<>>
    ELSE (IF Head(rels).ProductName = codeName /\ Head(rels).Status = fixStatus
          THEN <<Head(rels)>> ELSE <<>>)
         \o DebianRels(Tail(rels), codeName, fixStatus)

\* (a bug to test the properties with: a package left with no release is kept)
RECURSIVE DebianPkgsKeptKeepsEmpty(_, _, _, _)
DebianPkgsKeptKeepsEmpty(pkgs, pkgName, codeName, fixStatus) ==
    IF pkgs = <<>> THEN <<>>
    ELSE LET pkg == Head(pkgs)
             rels == DebianRels(pkg.Release, codeName, fixStatus)
         IN  (IF pkg.PackageName # pkgName
              THEN <<>>
              ELSE << [pkg EXCEPT !.Release = rels] >>)
             \o DebianPkgsKeptKeepsEmpty(Tail(pkgs), pkgName, codeName, fixStatus)

\* for _, pkg := range deb.Package: the packages kept, each with the releases kept
RECURSIVE DebianPkgsKept(_, _, _, _)
DebianPkgsKept(pkgs, pkgName, codeName, fixStatus) ==
    IF pkgs = <<>> THEN <<>>
    ELSE LET pkg == Head(pkgs)
             rels == DebianRels(pkg.Release, codeName, fixStatus)
         IN  (IF pkg.PackageName # pkgName \/ rels = <<>>
              THEN <<>>
              ELSE << [pkg EXCEPT !.Release = rels] >>)
             \o DebianPkgsKept(Tail(pkgs), pkgName, codeName, fixStatus)

\* The candidates kept, keyed by CVE id: the body of `for _, cveID := range result.Val()`
DebianKept(d, cveID, pkgName, codeName, fixStatus) ==
    LET deb == GetDebian(d, cveID, FALSE)
    IN  IF deb.nil THEN <<>>
        ELSE DebianPkgsKept(deb.doc.Package, pkgName, codeName, fixStatus)

\* (a bug to test the properties with: a member without a record ends the call)
getCvesDebianStopsAtMissing(d, major, pkgName, fixStatus, err) ==
    IF major \notin DOMAIN debVerCodename THEN <<>>
    ELSE IF err THEN <<>>
    ELSE LET ids == ZRange(d, zindDebianPrefix \o pkgName)
             kept(id) == DebianKept(d, id, pkgName, debVerCodename[major], fixStatus)
         IN  IF \E id \in ids : GetDebian(d, id, FALSE).nil THEN <<>>
             ELSE [id \in {x \in ids : kept(x) # <<>>} |->
                      [GetDebian(d, id, FALSE).doc EXCEPT !.Package = kept(id)]]

\* (a bug to test the properties with: an unknown major falls back to a codename)
getCvesDebianWithDefaultCodename(d, major, pkgName, fixStatus, err) ==
    IF err THEN <<>>
    ELSE LET codeName == IF major \in DOMAIN debVerCodename
                         THEN debVerCodename[major] ELSE "bookworm"
             ids == ZRange(d, zindDebianPrefix \o pkgName)
             kept(id) == DebianKept(d, id, pkgName, codeName, fixStatus)
         IN  [id \in {x \in ids : kept(x) # <<>>} |->
                 [GetDebian(d, id, FALSE).doc EXCEPT !.Package = kept(id)]]

getCvesDebianWithFixStatus(d, major, pkgName, fixStatus, err) ==
    IF major \notin DOMAIN debVerCodename THEN <<>>
    ELSE IF err THEN <<>>
    ELSE LET ids == ZRange(d, zindDebianPrefix \o pkgName)
             kept(id) == DebianKept(d, id, pkgName, debVerCodename[major], fixStatus)
         IN  [id \in {x \in ids : kept(x) # <<>>} |->
                 [GetDebian(d, id, FALSE).doc EXCEPT !.Package = kept(id)]]

\* The commands getCvesDebianWithFixStatus sends: none for an unknown major,
\* else the ZRange and, when it succeeds, one HGetAll per member
DebianReads(d, major, pkgName, err) ==
    IF major \notin DOMAIN debVerCodename THEN 0
    ELSE IF err THEN 1
    ELSE 1 + Cardinality(ZRange(d, zindDebianPrefix \o pkgName))

GetUnfixedCvesDebian(d, major, pkgName, err) ==
    getCvesDebianWithFixStatus(d, major, pkgName, "open", err)

GetFixedCvesDebian(d, major, pkgName, err) ==
    getCvesDebianWithFixStatus(d, major, pkgName, "resolved", err)

\* for _, s := range fixStatus { if s == relPatch.Status { append } }
RECURSIVE UbuntuMatches(_, _)
UbuntuMatches(relPatch, fixStatus) ==
    IF fixStatus = <<>> THEN <<>>
    ELSE (IF Head(fixStatus) = relPatch.Status THEN <<relPatch>> ELSE <<>>)
         \o UbuntuMatches(relPatch, Tail(fixStatus))

RECURSIVE UbuntuRels(_, _, _)
UbuntuRels(rels, codeName, fixStatus) ==
    IF rels = <<>> THEN <<>>
    ELSE (IF Head(rels).ReleaseName = codeName
          THEN UbuntuMatches(Head(rels), fixStatus) ELSE <<>>)
         \o UbuntuRels(Tail(rels), codeName, fixStatus)

RECURSIVE UbuntuPatchesKept(_, _, _, _)
UbuntuPatchesKept(patches, pkgName, codeName, fixStatus) ==
    IF patches = <<>> THEN <<>>
    ELSE LET p == Head(patches)
             rels == UbuntuRels(p.ReleasePatches, codeName, fixStatus)
         IN  (IF p.PackageName # pkgName \/ rels = <<>>
              THEN <<>>
              ELSE << [p EXCEPT !.ReleasePatches = rels] >>)
             \o UbuntuPatchesKept(Tail(patches), pkgName, codeName, fixStatus)

UbuntuKept(d, cveID, pkgName, codeName, fixStatus) ==
    LET cve == GetUbuntu(d, cveID, FALSE)
    IN  IF cve.nil THEN <<>>
        ELSE UbuntuPatchesKept(cve.doc.Patches, pkgName, codeName, fixStatus)

getCvesUbuntuWithFixStatus(d, major, pkgName, fixStatus, err) ==
    IF major \notin DOMAIN ubuntuVerCodename THEN <<>>
    ELSE IF err THEN <<>>
    ELSE LET ids == ZRange(d, zindUbuntuPrefix \o pkgName)
             kept(id) == UbuntuKept(d, id, pkgName, ubuntuVerCodename[major], fixStatus)
         IN  [id \in {x \in ids : kept(x) # <<>>} |->
                 [GetUbuntu(d, id, FALSE).doc EXCEPT !.Patches = kept(id)]]

UbuntuReads(d, major, pkgName, err) ==
    IF major \notin DOMAIN ubuntuVerCodename THEN 0
    ELSE IF err THEN 1
    ELSE 1 + Cardinality(ZRange(d, zindUbuntuPrefix \o pkgName))

GetUnfixedCvesUbuntu(d, major, pkgName, err) ==
    getCvesUbuntuWithFixStatus(d, major, pkgName, <<"needed", "pending">>, err)

GetFixedCvesUbuntu(d, major, pkgName, err) ==
    getCvesUbuntuWithFixStatus(d, major, pkgName, <<"released">>, err)

\* (a bug to test the properties with: the fix state "New" is not excluded)
RECURSIVE RedhatStatesKeptKeepsNew(_, _, _, _)
RedhatStatesKeptKeepsNew(states, cpe, pkgName, ignoreWillNotFix) ==
    IF states = <<>> THEN <<>>
    ELSE LET pkgstat == Head(states)
         IN  (IF \/ pkgstat.Cpe # cpe
                 \/ pkgstat.PackageName # pkgName
                 \/ pkgstat.FixState = "Not affected"
              THEN <<>>
              ELSE IF ignoreWillNotFix /\ pkgstat.FixState = "Will not fix"
              THEN <<>>
              ELSE <<pkgstat>>)
             \o RedhatStatesKeptKeepsNew(Tail(states), cpe, pkgName, ignoreWillNotFix)

\* The loop over red.PackageState of GetUnfixedCvesRedhat
RECURSIVE RedhatStatesKept(_, _, _, _)
RedhatStatesKept(states, cpe, pkgName, ignoreWillNotFix) ==
    IF states = <<>> THEN <<>>
    ELSE LET pkgstat == Head(states)
         IN  (IF \/ pkgstat.Cpe # cpe
                 \/ pkgstat.PackageName # pkgName
                 \/ pkgstat.FixState = "Not affected"
                 \/ pkgstat.FixState = "New"
              THEN <<>>
              ELSE IF ignoreWillNotFix /\ pkgstat.FixState = "Will not fix"
              THEN <<>>
              ELSE <<pkgstat>>)
             \o RedhatStatesKept(Tail(states), cpe, pkgName, ignoreWillNotFix)

RedhatKept(d, cveID, major, pkgName, ignoreWillNotFix) ==
    LET red == GetRedhat(d, cveID, FALSE)
    IN  IF red.nil THEN <<>>
        ELSE RedhatStatesKept(red.doc.PackageState, Cpe(major), pkgName, ignoreWillNotFix)

GetUnfixedCvesRedhat(d, major, pkgName, ignoreWillNotFix, err) ==
    IF err THEN <<>>
    ELSE LET ids == ZRange(d, zindRedHatPrefix \o pkgName)
             kept(id) == RedhatKept(d, id, major, pkgName, ignoreWillNotFix)
         IN  [id \in {x \in ids : kept(x) # <<>>} |->
                 [GetRedhat(d, id, FALSE).doc EXCEPT !.PackageState = kept(id)]]

-----------------------------------------------------------------------------
(* Reader calls.  The caller makes one call at a time: a reader runs between *)
(* two writer calls, on the store as they left it.  Every store an Insert    *)
(* passes through is also the store a broken Insert leaves behind, so the    *)
(* readers see every reachable store.                                        *)

\* (a bug to test the properties with: the narrowed documents are stored back)
ReadWritesBack(r) ==
    /\ call.pc = "idle"
    /\ ret = NoRet
    /\ ret' = r
    /\ db' = IF r.op # "GetCves" THEN db
             ELSE [db EXCEPT !.data =
                     [k \in DOMAIN db.data |->
                        IF \E id \in DOMAIN r.res : k = CveKey(id)
                        THEN [db.data[k] EXCEPT !.f[r.vendor] =
                                 Marshal(r.res[CHOOSE id \in DOMAIN r.res : k = CveKey(id)])]
                        ELSE db.data[k]]]
    /\ UNCHANGED <<call, written, hist, cmd>>

Read(r) ==
    /\ call.pc = "idle"
    /\ ret = NoRet
    /\ ret' = r
    /\ UNCHANGED <<db, call, written, hist, cmd>>

\* The reader call has returned and its result is dropped
ReadReturn ==
    /\ ret # NoRet
    /\ ret' = NoRet
    /\ UNCHANGED <<db, call, written, hist, cmd>>

PointRead(vendor, cveID, err) ==
    Read([op |-> "GetOne", vendor |-> vendor, id |-> cveID, err |-> err,
          res |-> GetOne(vendor, db, cveID, err)])

MultiRead(vendor, cveIDs, err) ==
    Read([op |-> "GetMany", vendor |-> vendor, ids |-> cveIDs, err |-> err,
          res |-> GetMany(vendor, db, cveIDs, err)])

DebianRead(fixed, major, pkgName, err) ==
    Read([op |-> "GetCves", vendor |-> "Debian", fixed |-> fixed, major |-> major,
          pkg |-> pkgName, err |-> err, reads |-> DebianReads(db, major, pkgName, err),
          res |-> IF fixed THEN GetFixedCvesDebian(db, major, pkgName, err)
                           ELSE GetUnfixedCvesDebian(db, major, pkgName, err)])

UbuntuRead(fixed, major, pkgName, err) ==
    Read([op |-> "GetCves", vendor |-> "Ubuntu", fixed |-> fixed, major |-> major,
          pkg |-> pkgName, err |-> err, reads |-> UbuntuReads(db, major, pkgName, err),
          res |-> IF fixed THEN GetFixedCvesUbuntu(db, major, pkgName, err)
                           ELSE GetUnfixedCvesUbuntu(db, major, pkgName, err)])

RedhatRead(major, pkgName, ignoreWillNotFix, err) ==
    Read([op |-> "GetCves", vendor |-> "RedHat", major |-> major, pkg |-> pkgName,
          ignoreWillNotFix |-> ignoreWillNotFix, err |-> err,
          res |-> GetUnfixedCvesRedhat(db, major, pkgName, ignoreWillNotFix, err)])

-----------------------------------------------------------------------------
Init ==
    /\ db = [data |-> <<>>, ttl |-> <<>>]
    /\ call = Idle
    /\ ret = NoRet
    /\ written = 0
    /\ hist = [expired |-> FALSE, cut |-> FALSE]
    /\ cmd = NotRun

\* The converted input lists the writers are called with
RedhatInputs == SeqsUpTo(RedhatCVEs, MaxWrites)
DebianInputs == SeqsUpTo(DebianCVEs, MaxWrites)
UbuntuInputs == SeqsUpTo(UbuntuCVEs, MaxWrites)
MicrosoftInputs == SeqsUpTo(MicrosoftCVEs, MaxWrites)
ProductInputs == SeqsUpTo(MicrosoftProducts, MaxWrites)

\* The identifier lists the multi lookups are called with
IDLists == SeqsUpTo(CveIDs, MaxIDs)

\* The caller is between two calls
Free == call.pc = "idle" /\ ret = NoRet

Writer ==
    \/ /\ Free
       /\ \E e \in Retentions, cves \in RedhatInputs : InsertRedhat(cves, e)
    \/ /\ Free
       /\ \E e \in Retentions, cves \in DebianInputs : InsertDebian(cves, e)
    \/ /\ Free
       /\ \E e \in Retentions, cves \in UbuntuInputs : InsertUbuntu(cves, e)
    \/ /\ Free
       /\ \E e \in Retentions, p \in ProductInputs, cves \in MicrosoftInputs :
             InsertMicrosoft(cves, p, e)
    \/ LoopNext
    \/ MarshalFail
    \/ ExecCmd
    \/ ExecOk
    \/ ExecFail
    \/ Return

Next ==
    \/ Writer
    \/ Tick
    \/ \E id \in CveIDs, v \in Vendors : ForeignWrite(id, v)

PointReader ==
    /\ Free
    /\ \E v \in Vendors, id \in CveIDs, err \in BOOLEAN : PointRead(v, id, err)

MultiReader ==
    /\ Free
    /\ \E v \in MultiVendors, ids \in IDLists, err \in BOOLEAN : MultiRead(v, ids, err)

FilterReader ==
    \/ /\ Free
       /\ \E f \in BOOLEAN, m \in DebianMajors, p \in PkgNames, err \in BOOLEAN :
             DebianRead(f, m, p, err)
    \/ /\ Free
       /\ \E f \in BOOLEAN, m \in UbuntuMajors, p \in PkgNames, err \in BOOLEAN :
             UbuntuRead(f, m, p, err)
    \/ /\ Free
       /\ \E m \in RedhatMajors, p \in PkgNames, i \in BOOLEAN, err \in BOOLEAN :
             RedhatRead(m, p, i, err)

\* Writers, time and point lookups
Spec == Init /\ [][Next \/ PointReader \/ ReadReturn]_vars

\* Writers, time and multi lookups
SpecMulti == Init /\ [][Next \/ MultiReader \/ ReadReturn]_vars

\* The writers of a process whose retention setting is MaxExpire seconds
FixedRetention == Word(MaxExpire)

WriterFixed ==
    \/ /\ Free
       /\ \E cves \in RedhatInputs : InsertRedhat(cves, FixedRetention)
    \/ /\ Free
       /\ \E cves \in DebianInputs : InsertDebian(cves, FixedRetention)
    \/ /\ Free
       /\ \E cves \in UbuntuInputs : InsertUbuntu(cves, FixedRetention)
    \/ /\ Free
       /\ \E p \in ProductInputs, cves \in MicrosoftInputs :
             InsertMicrosoft(cves, p, FixedRetention)
    \/ LoopNext
    \/ MarshalFail
    \/ ExecCmd
    \/ ExecOk
    \/ ExecFail
    \/ Return

\* The fetch commands, one run after the other
Fetch ==
    \/ \E apikey \in BOOLEAN : fetchMicrosoft(apikey)
    \/ \E listOnly \in BOOLEAN : fetchRedHatAPI(listOnly)
    \/ \E err \in BOOLEAN : NewDB(err)
    \/ \E err \in BOOLEAN, outdated \in BOOLEAN : GetFetchMeta(err, outdated)
    \/ OutDated
    \/ ApiKey
    \/ \E err \in BOOLEAN : ListAllRedhatCves(err)
    \/ ListOnly
    \/ \E err \in BOOLEAN : RetrieveCveDetails(err)
    \/ \E err \in BOOLEAN : RetrieveMicrosoftBulletinSearch(err)
    \/ /\ Free
       /\ cmd.pc = "Insert"
       /\ \E e \in Retentions, p \in ProductInputs,
             cves \in (IF cmd.name = "microsoft" THEN MicrosoftInputs ELSE RedhatInputs) :
             CallInsert(cves, p, e)
    \/ LoopNext
    \/ MarshalFail
    \/ ExecCmd
    \/ ExecOk
    \/ ExecFail
    \/ InsertReturned
    \/ \E err \in BOOLEAN : UpsertFetchMeta(err)
    \/ Exit

\* The fetch commands and the Insert calls they make
SpecFetch == Init /\ [][Fetch]_vars

\* Writers, time and the package queries
SpecFilter == Init /\ [][Next \/ FilterReader \/ ReadReturn]_vars

\* Writers, time and every reader
SpecReaders ==
    Init /\ [][Next \/ PointReader \/ MultiReader \/ FilterReader \/ ReadReturn]_vars

\* Writers with one positive retention, time and the package queries
SpecFixed == Init /\ [][WriterFixed \/ Tick \/ FilterReader \/ ReadReturn]_vars

-----------------------------------------------------------------------------
(* Vocabulary of the properties *)

\* The identifier a record is stored under, and the names its sub-entries index
IdOf(vendor, cve) ==
    CASE vendor = "RedHat"    -> cve.Name
      [] vendor = "Debian"    -> cve.CveID
      [] vendor = "Ubuntu"    -> cve.Candidate
      [] vendor = "Microsoft" -> cve.CveID

SubNames(vendor, cve) ==
    CASE vendor = "RedHat"    -> Range(RedhatPkgs(cve))
      [] vendor = "Debian"    -> Range(DebianPkgs(cve))
      [] vendor = "Ubuntu"    -> Range(UbuntuPkgs(cve))
      [] vendor = "Microsoft" -> Range(MicrosoftKBIDs(cve))

IndexPrefix(vendor) ==
    CASE vendor = "RedHat"    -> zindRedHatPrefix
      [] vendor = "Debian"    -> zindDebianPrefix
      [] vendor = "Ubuntu"    -> zindUbuntuPrefix
      [] vendor = "Microsoft" -> zindMicrosoftKBIDPrefix

IndexNames == PkgNames \cup KBIDs

ZeroOf(vendor) ==
    CASE vendor = "RedHat"    -> ZeroRedhat
      [] vendor = "Debian"    -> ZeroDebian
      [] vendor = "Ubuntu"    -> ZeroUbuntu
      [] vendor = "Microsoft" -> ZeroMicrosoft

Member(d, vendor, name, cveID) == cveID \in ZRange(d, IndexPrefix(vendor) \o name)

Returned == call.pc = "done"
Succeeded == call.pc = "done" /\ ~call.err
Failed == call.pc = "done" /\ call.err

Records == 1..Len(call.cves)
RecId(i) == IdOf(call.vendor, call.cves[i])
RecNames(i) == SubNames(call.vendor, call.cves[i])

\* The last record of the input with the same identifier as record i
LastOf(i) == CHOOSE j \in Records :
                /\ RecId(j) = RecId(i)
                /\ \A l \in Records : RecId(l) = RecId(i) => l <= j

\* The keys the call writes: primary keys, index keys, product keys
PrimaryKeys == {CveKey(RecId(i)) : i \in Records}
IndexKeys == {IndexPrefix(call.vendor) \o n : n \in UNION {RecNames(i) : i \in Records}}
ProductKeys == {zindMicrosoftProductIDPrefix \o call.products[j].ProductID :
                   j \in 1..Len(call.products)}

\* The vendor's document stored under CVE#<cveID>, decoded; none when the key,
\* the field or a readable document is missing
Holds(d, vendor, cveID) ==
    /\ Has(HGetAll(d, CveKey(cveID)), vendor)
    /\ IsJSON(HGetAll(d, CveKey(cveID))[vendor])
DocOf(d, vendor, cveID) == Unmarshal(HGetAll(d, CveKey(cveID))[vendor])

-----------------------------------------------------------------------------
(* C1: after a successful Insert during which no key was removed by its    *)
(* timeout (no second passes during a call), every package / KB a record   *)
(* references has the record's identifier in its index, and every          *)
(* Microsoft product id indexes its product name.                          *)
C1_IndexAfterInsert ==
    (Succeeded /\ ~call.lost) =>
        /\ \A i \in Records : \A n \in RecNames(i) : Member(db, call.vendor, n, RecId(i))
        /\ \A j \in 1..Len(call.products) :
              call.products[j].ProductName
                  \in ZRange(db, zindMicrosoftProductIDPrefix \o call.products[j].ProductID)

C1_Witness ==
    /\ Succeeded
    /\ ~call.lost
    /\ call.vendor = "Microsoft"
    /\ call.products # <<>>
    /\ \E i \in Records : Cardinality(RecNames(i)) = 2

(* C3: after a successful Insert during which no key was removed by its     *)
(* timeout, GetOne(vendor, id) returns, for every identifier of the input,  *)
(* the last record of the input with that identifier, whatever the key      *)
(* held before.                                                             *)
C3_InsertThenRead ==
    (Succeeded /\ ~call.lost) =>
        \A i \in Records :
            LET r == GetOne(call.vendor, db, RecId(i), FALSE)
            IN  ~r.nil /\ r.doc = call.cves[LastOf(i)]

C3_Witness ==
    /\ Succeeded
    /\ ~call.lost
    /\ \E i, j \in Records :
          /\ i < j
          /\ RecId(i) = RecId(j)
          /\ call.cves[i] # call.cves[j]
          /\ GetOne(call.vendor, db, RecId(i), FALSE).doc = call.cves[j]

(* C4: after a successful Insert with retention N > 0 every primary key,    *)
(* index key and product key the call wrote expires in N seconds; with      *)
(* retention 0 every such key is persistent (time to live 0 in the model),  *)
(* whatever it was before.                                                  *)
C4_Retention ==
    Succeeded =>
        \A key \in PrimaryKeys \cup IndexKeys \cup ProductKeys :
            /\ Exists(db, key)
            /\ db.ttl[key] = ToNat(call.expire)

(* C5: when the batch of record k fails (encode or Exec), Insert returns an *)
(* error, no command of a later record is ever queued, and the records      *)
(* before k stay committed unless a timeout removed their keys: their      *)
(* index memberships, and their document unless a later record up to k has  *)
(* the same identifier.                                                     *)
C5_NoRollback ==
    (call.pc # "idle" /\ call.broke) =>
        /\ Failed
        /\ call.issued \subseteq 1..call.k
        /\ ~call.lost => \A j \in 1..(call.k - 1) :
              /\ \A n \in RecNames(j) : Member(db, call.vendor, n, RecId(j))
              /\ (\A l \in (j + 1)..call.k : RecId(l) # RecId(j))
                    => /\ Holds(db, call.vendor, RecId(j))
                       /\ DocOf(db, call.vendor, RecId(j)) = call.cves[j]

C5_Witness ==
    /\ Failed
    /\ ~call.lost
    /\ call.k = 2
    /\ RecNames(1) # {}
    /\ RecId(1) # RecId(2)
    /\ Holds(db, call.vendor, RecId(2))

(* C6: an Insert with no record (and, for Microsoft, no product) returns    *)
(* success and no step of it changes the store.                             *)
C6_EmptyInsert ==
    [][(call'.pc # "idle" /\ call'.cves = <<>> /\ call'.products = <<>>)
          => (db' = db /\ ~call'.err)]_vars

C6_Witness ==
    /\ Succeeded
    /\ call.cves = <<>>
    /\ call.products = <<>>
    /\ call.vendor = "Microsoft"
    /\ DOMAIN db.data # {}

(* C2, as claimed: between calls, a CVE identifier is a member of index     *)
(* (vendor, pkg) if and only if the primary record holds a document of the *)
(* vendor with a sub-entry for pkg, even when no batch was ever cut short.  *)
HasSub(d, vendor, cveID, name) ==
    Holds(d, vendor, cveID) /\ name \in SubNames(vendor, DocOf(d, vendor, cveID))

FieldAbsent(d, vendor, cveID) == ~Has(HGetAll(d, CveKey(cveID)), vendor)

C7_DefaultWhenAbsent ==
    (ret.op = "GetOne" /\ ~ret.err /\ FieldAbsent(db, ret.vendor, ret.id)) =>
        (~ret.res.nil /\ ret.res.doc = ZeroOf(ret.vendor))

(* C7, amended: GetRedhat and GetMicrosoft return the zero document when   *)
(* the field is absent; GetDebian and GetUbuntu return nil.                *)
C7_DefaultOrNilWhenAbsent ==
    (ret.op = "GetOne" /\ ~ret.err /\ FieldAbsent(db, ret.vendor, ret.id)) =>
        IF ret.vendor \in {"RedHat", "Microsoft"}
        THEN ~ret.res.nil /\ ret.res.doc = ZeroOf(ret.vendor)
        ELSE ret.res.nil

\* The key is there, populated by another vendor only
C7_Witness ==
    /\ ret.op = "GetOne"
    /\ ~ret.err
    /\ ret.vendor = "Debian"
    /\ Exists(db, CveKey(ret.id))
    /\ FieldAbsent(db, ret.vendor, ret.id)
    /\ ret.res.nil

\* The stored field of the vendor does not decode / holds a document
Undecodable(d, vendor, cveID) ==
    LET val == HGetAll(d, CveKey(cveID))
    IN  Has(val, vendor) /\ ~IsJSON(val[vendor])

LongerIDLists == SeqsUpTo(CveIDs, MaxIDs + 1)

(* C8: GetMany(vendor, ids) returns nil, or a map whose keys are exactly    *)
(* the distinct ids, each value being the document GetOne(vendor, id)       *)
(* returns in the same state (the zero document for an absent field); the   *)
(* result is the same for every list with the same set of ids.              *)
C8_MultiGetConsistency ==
    ret.op = "GetMany" =>
        /\ ~ret.res.nil =>
              /\ DOMAIN ret.res.m = Range(ret.ids)
              /\ \A id \in DOMAIN ret.res.m :
                    LET one == GetOne(ret.vendor, db, id, ret.err)
                    IN  ~one.nil /\ one.doc = ret.res.m[id]
        /\ \A ids \in LongerIDLists :
              Range(ids) = Range(ret.ids) =>
                  GetMany(ret.vendor, db, ids, ret.err) = ret.res

\* Two ids in the list, one stored with sub-entries and one absent
C8_Witness ==
    /\ ret.op = "GetMany"
    /\ ~ret.res.nil
    /\ Len(ret.ids) = 2
    /\ \E id \in Range(ret.ids) :
          /\ Holds(db, ret.vendor, id)
          /\ ret.res.m[id] # ZeroOf(ret.vendor)
    /\ \E id \in Range(ret.ids) :
          /\ FieldAbsent(db, ret.vendor, id)
          /\ ret.res.m[id] = ZeroOf(ret.vendor)

(* C9, as claimed: when the batch executes, a document that cannot be      *)
(* decoded costs the result of its own identifier only; the stored         *)
(* documents of the other requested identifiers are returned.              *)
C9_DecodeFailureIsLocal ==
    (ret.op = "GetMany" /\ ~ret.err) =>
        \A id \in Range(ret.ids) :
            Holds(db, ret.vendor, id) =>
                /\ ~ret.res.nil
                /\ id \in DOMAIN ret.res.m
                /\ ret.res.m[id] = DocOf(db, ret.vendor, id)

(* C9, amended: GetMany yields no result at all (nil) exactly when the     *)
(* batch execution fails or the stored document of at least one requested  *)
(* identifier cannot be decoded; otherwise every requested id is returned. *)
C9_DecodeFailureIsGlobal ==
    ret.op = "GetMany" =>
        /\ ret.res.nil <=>
              (ret.err \/ \E id \in Range(ret.ids) : Undecodable(db, ret.vendor, id))
        /\ ~ret.res.nil => DOMAIN ret.res.m = Range(ret.ids)

\* One id does not decode, the other holds a document, and nothing is returned
C9_Witness ==
    /\ ret.op = "GetMany"
    /\ ~ret.err
    /\ \E id \in Range(ret.ids) : Undecodable(db, ret.vendor, id)
    /\ \E id \in Range(ret.ids) : Holds(db, ret.vendor, id)
    /\ ret.res.nil

\* The narrowing of C10, said with filters over the stored document
DebianNarrowed(doc, pkgName, codeName, statuses) ==
    LET rels(pkg) == SelectSeq(pkg.Release,
                        LAMBDA r : r.ProductName = codeName /\ r.Status \in statuses)
        named == SelectSeq(doc.Package,
                        LAMBDA pkg : pkg.PackageName = pkgName /\ rels(pkg) # <<>>)
    IN  [doc EXCEPT !.Package =
            [i \in 1..Len(named) |-> [named[i] EXCEPT !.Release = rels(named[i])]]]

UbuntuNarrowed(doc, pkgName, codeName, statuses) ==
    LET rels(p) == SelectSeq(p.ReleasePatches,
                        LAMBDA r : r.ReleaseName = codeName /\ r.Status \in statuses)
        named == SelectSeq(doc.Patches,
                        LAMBDA p : p.PackageName = pkgName /\ rels(p) # <<>>)
    IN  [doc EXCEPT !.Patches =
            [i \in 1..Len(named) |-> [named[i] EXCEPT !.ReleasePatches = rels(named[i])]]]

WantedStatuses(vendor, fixed) ==
    CASE vendor = "Debian" /\ ~fixed -> {"open"}
      [] vendor = "Debian" /\ fixed  -> {"resolved"}
      [] vendor = "Ubuntu" /\ ~fixed -> {"needed", "pending"}
      [] vendor = "Ubuntu" /\ fixed  -> {"released"}

Codenames(vendor) == IF vendor = "Debian" THEN debVerCodename ELSE ubuntuVerCodename

Narrowed(vendor, doc, pkgName, codeName, statuses) ==
    IF vendor = "Debian" THEN DebianNarrowed(doc, pkgName, codeName, statuses)
    ELSE UbuntuNarrowed(doc, pkgName, codeName, statuses)

SubsOf(vendor, doc) == IF vendor = "Debian" THEN doc.Package ELSE doc.Patches
RelsOf(vendor, sub) == IF vendor = "Debian" THEN sub.Release ELSE sub.ReleasePatches

(* C10: for Debian and Ubuntu, the query for (major, packageName, statuses) *)
(* returns exactly the map id -> narrowed document over the members of the  *)
(* package's index whose stored document has a non-empty narrowing; no      *)
(* returned document has zero sub-entries or a sub-entry with no release.   *)
C10_FilteredQuery ==
    (/\ ret.op = "GetCves"
     /\ ret.vendor \in {"Debian", "Ubuntu"}
     /\ ~ret.err
     /\ ret.major \in DOMAIN Codenames(ret.vendor)) =>
        LET v == ret.vendor
            narrowed(id) == Narrowed(v, DocOf(db, v, id), ret.pkg,
                                     Codenames(v)[ret.major], WantedStatuses(v, ret.fixed))
            kept == {id \in ZRange(db, IndexPrefix(v) \o ret.pkg) :
                        Holds(db, v, id) /\ SubsOf(v, narrowed(id)) # <<>>}
        IN  /\ DOMAIN ret.res = kept
            /\ \A id \in kept : ret.res[id] = narrowed(id)
            /\ \A id \in DOMAIN ret.res :
                  /\ SubsOf(v, ret.res[id]) # <<>>
                  /\ \A i \in DOMAIN SubsOf(v, ret.res[id]) :
                        RelsOf(v, SubsOf(v, ret.res[id])[i]) # <<>>

\* A candidate is returned with fewer sub-entries and fewer releases than stored
C10_Witness ==
    /\ ret.op = "GetCves"
    /\ ret.vendor = "Debian"
    /\ ~ret.err
    /\ \E id \in DOMAIN ret.res :
          LET doc == DocOf(db, "Debian", id)
          IN  /\ Len(ret.res[id].Package) < Len(doc.Package)
              /\ \E i \in DOMAIN doc.Package :
                    /\ doc.Package[i].PackageName = ret.pkg
                    /\ Len(ret.res[id].Package[1].Release) < Len(doc.Package[i].Release)

\* The package states C11 keeps, said with a filter over the stored document
RedhatNarrowed(doc, major, pkgName, ignoreWillNotFix) ==
    [doc EXCEPT !.PackageState =
        SelectSeq(doc.PackageState,
                  LAMBDA st : /\ st.Cpe = Cpe(major)
                              /\ st.PackageName = pkgName
                              /\ st.FixState \notin {"Not affected", "New"}
                              /\ (~ignoreWillNotFix \/ st.FixState # "Will not fix"))]

(* C11: GetUnfixedCvesRedhat(major, pkgName, ignoreWillNotFix) returns, for  *)
(* the members of the package's index, the stored document with exactly the *)
(* package states whose CPE is that of major, whose package is pkgName,     *)
(* whose fix state is neither "Not affected" nor "New" and, with the toggle *)
(* on, not "Will not fix"; a CVE with no such state is absent; the result   *)
(* with the toggle on is a narrowing of the result with the toggle off.     *)
C11_RedhatQuery ==
    (ret.op = "GetCves" /\ ret.vendor = "RedHat" /\ ~ret.err) =>
        LET narrowed(id, toggle) ==
                RedhatNarrowed(DocOf(db, "RedHat", id), ret.major, ret.pkg, toggle)
            kept(toggle) ==
                {id \in ZRange(db, zindRedHatPrefix \o ret.pkg) :
                    /\ Holds(db, "RedHat", id)
                    /\ narrowed(id, toggle).PackageState # <<>>}
            on  == GetUnfixedCvesRedhat(db, ret.major, ret.pkg, TRUE, FALSE)
            off == GetUnfixedCvesRedhat(db, ret.major, ret.pkg, FALSE, FALSE)
        IN  /\ DOMAIN ret.res = kept(ret.ignoreWillNotFix)
            /\ \A id \in DOMAIN ret.res : ret.res[id] = narrowed(id, ret.ignoreWillNotFix)
            /\ DOMAIN on \subseteq DOMAIN off
            /\ \A id \in DOMAIN on :
                  on[id].PackageState =
                      SelectSeq(off[id].PackageState,
                                LAMBDA st : st.FixState # "Will not fix")

\* With the toggle on, a stored document comes back without its "Will not fix"
\* state, and the same query with the toggle off has it
C11_Witness ==
    /\ ret.op = "GetCves"
    /\ ret.vendor = "RedHat"
    /\ ~ret.err
    /\ ret.ignoreWillNotFix
    /\ \E id \in DOMAIN ret.res :
          /\ Len(ret.res[id].PackageState) = 1
          /\ Len(GetUnfixedCvesRedhat(db, ret.major, ret.pkg, FALSE, FALSE)[id].PackageState) = 2
          /\ Len(DocOf(db, "RedHat", id).PackageState) = 4

(* C12: for Debian and Ubuntu, a filtered query whose major is not in the  *)
(* vendor's codename table returns the empty map, in every store state and *)
(* whether or not the server answers, and sends no command to the store.   *)
C12_UnknownMajor ==
    (/\ ret.op = "GetCves"
     /\ ret.vendor \in {"Debian", "Ubuntu"}
     /\ ret.major \notin DOMAIN Codenames(ret.vendor)) =>
        /\ DOMAIN ret.res = {}
        /\ ret.reads = 0

\* The same package query for a known major returns a document
C12_Witness ==
    /\ ret.op = "GetCves"
    /\ ret.vendor = "Debian"
    /\ ret.major \notin DOMAIN debVerCodename
    /\ ~ret.err
    /\ DOMAIN ret.res = {}
    /\ \E m \in DOMAIN debVerCodename :
          DOMAIN getCvesDebianWithFixStatus(db, m, ret.pkg,
                     IF ret.fixed THEN "resolved" ELSE "open", FALSE) # {}

\* The filtered query of a returned call r, on the store d
FilteredQuery(d, r) ==
    CASE r.vendor = "Debian" ->
            IF r.fixed THEN GetFixedCvesDebian(d, r.major, r.pkg, r.err)
            ELSE GetUnfixedCvesDebian(d, r.major, r.pkg, r.err)
      [] r.vendor = "Ubuntu" ->
            IF r.fixed THEN GetFixedCvesUbuntu(d, r.major, r.pkg, r.err)
            ELSE GetUnfixedCvesUbuntu(d, r.major, r.pkg, r.err)
      [] r.vendor = "RedHat" ->
            GetUnfixedCvesRedhat(d, r.major, r.pkg, r.ignoreWillNotFix, r.err)

\* The members of index (vendor, pkg) whose record has no field of the vendor,
\* and the store with these members taken out of the index
Orphans(d, vendor, pkgName) ==
    {id \in ZRange(d, IndexPrefix(vendor) \o pkgName) : FieldAbsent(d, vendor, id)}
WithoutOrphans(d, vendor, pkgName) ==
    LET key == IndexPrefix(vendor) \o pkgName
    IN  IF Exists(d, key)
        THEN [d EXCEPT !.data[key].m = @ \ Orphans(d, vendor, pkgName)]
        ELSE d

(* C13: in the filtered readers of the three vendors, an index member      *)
(* whose primary record or vendor field is absent is not in the result,    *)
(* and the result is the one the query gives with these members taken out  *)
(* of the index: the other candidates are processed and returned.          *)
C13_OrphanSkipped ==
    (ret.op = "GetCves" /\ ~ret.err) =>
        /\ DOMAIN ret.res \cap Orphans(db, ret.vendor, ret.pkg) = {}
        /\ ret.res = FilteredQuery(WithoutOrphans(db, ret.vendor, ret.pkg), ret)

\* The index holds a member without a record and a member that is returned
C13_Witness ==
    /\ ret.op = "GetCves"
    /\ ~ret.err
    /\ Orphans(db, ret.vendor, ret.pkg) # {}
    /\ DOMAIN ret.res # {}

(* C14: no reader call (GetOne, GetMany, a filtered query of any vendor)    *)
(* changes the store: field values, index members and times to live are    *)
(* the same after the call as before, also when the returned document was  *)
(* narrowed.                                                               *)
C14_ReadersLeaveStore == [][ret' # NoRet => db' = db]_vars

\* A query has returned a narrowed document and the stored one is whole
C14_Witness ==
    /\ ret.op = "GetCves"
    /\ \E id \in DOMAIN ret.res :
          /\ Holds(db, ret.vendor, id)
          /\ ret.res[id] # DocOf(db, ret.vendor, id)

\* Every index key and every (CVE key, vendor) field of the model
AllIndexKeys ==
    {IndexPrefix(v) \o n : v \in Vendors, n \in IndexNames}
        \cup {zindMicrosoftProductIDPrefix \o p.ProductID : p \in MicrosoftProducts}
Populated(d) == {<<id, v>> \in CveIDs \X Vendors : Has(HGetAll(d, CveKey(id)), v)}

(* C15: in a run without key expiry no step removes a member from an index *)
(* or a vendor field from a primary record: the member sets and the set of *)
(* populated fields only grow, also when a record is inserted again without *)
(* a package it had.                                                        *)
C15_OnlyGrows ==
    [][~hist'.expired =>
          /\ \A key \in AllIndexKeys : ZRange(db, key) \subseteq ZRange(db', key)
          /\ Populated(db) \subseteq Populated(db')]_vars

\* A record inserted again without sub-entries is still a member of an index
C15_Witness ==
    /\ Succeeded
    /\ ~hist.expired
    /\ \E i \in Records :
          /\ RecNames(LastOf(i)) = {}
          /\ \E n \in IndexNames : Member(db, call.vendor, n, RecId(i))

\* The index keys of a vendor's prefix(es)
IndexKeysOf(vendor) ==
    {IndexPrefix(vendor) \o n : n \in IndexNames}
        \cup (IF vendor = "Microsoft"
              THEN {zindMicrosoftProductIDPrefix \o p.ProductID : p \in MicrosoftProducts}
              ELSE {})

\* The field of a vendor under CVE#<cveID> is the same in the stores d and e
SameField(d, e, vendor, cveID) ==
    LET f == HGetAll(d, CveKey(cveID))
        g == HGetAll(e, CveKey(cveID))
    IN  /\ Has(f, vendor) <=> Has(g, vendor)
        /\ Has(f, vendor) => f[vendor] = g[vendor]

(* C16: a step of an Insert of vendor V leaves alone the field of every     *)
(* other vendor under every CVE key and the members of every index of       *)
(* another vendor's prefix.                                                 *)
C16_OtherVendorsUntouched ==
    [][call.pc # "idle" =>
          \A v \in Vendors \ {call.vendor} :
              /\ \A id \in CveIDs : SameField(db, db', v, id)
              /\ \A key \in IndexKeysOf(v) : ZRange(db, key) = ZRange(db', key)]_vars

\* What the store holds under the given keys: values and timeouts
Slice(d, keys) ==
    [k \in keys \cap DOMAIN d.data |-> <<d.data[k], d.ttl[k]>>]

CveKeys == {CveKey(id) : id \in CveIDs}
KBKeys == {zindMicrosoftKBIDPrefix \o n : n \in IndexNames}

\* Every product of the call is a member of its product index
ProductsIndexed(d) ==
    \A j \in 1..Len(call.products) :
        call.products[j].ProductName
            \in ZRange(d, zindMicrosoftProductIDPrefix \o call.products[j].ProductID)

(* C17: InsertMicrosoft writes the product index in a batch of its own      *)
(* before the first CVE record.  While the product batch is in flight or    *)
(* has failed (no CVE record reached yet) no step changes a CVE key or a KB *)
(* index key, and after a failed product batch the call only returns; once  *)
(* the first CVE record is reached every product of the call is indexed     *)
(* (unless a timeout <= 0 has removed a key during the call).               *)
C17_ProductsFirst ==
    [][/\ (call.pc # "idle" /\ call.vendor = "Microsoft" /\ call.k = 0) =>
              /\ Slice(db', CveKeys \cup KBKeys) = Slice(db, CveKeys \cup KBKeys)
              /\ call.err => call'.pc = "idle"
       /\ (call'.pc # "idle" /\ call'.vendor = "Microsoft" /\ call'.k >= 1
               /\ ~call'.lost) =>
              ProductsIndexed(db')]_vars

\* The HSet of the first CVE record of an InsertMicrosoft has been applied,
\* after a product batch that wrote an index member
C17_Witness ==
    /\ call.pc = "exec"
    /\ call.vendor = "Microsoft"
    /\ call.products # <<>>
    /\ call.k = 1
    /\ Len(call.queue) < call.n
    /\ ~call.lost
    /\ Holds(db, "Microsoft", RecId(1))

(* C18: the HSet of a record is applied before each of its index writes:   *)
(* in a step that makes an identifier a new member of an index of a vendor, *)
(* a lookup by identifier already returns the record being inserted, before *)
(* the step and after it (unless a timeout <= 0 has removed a key during    *)
(* the call).  A reader that sees the new member finds the primary record.  *)
C18_PrimaryBeforeIndex ==
    [][db'.data # db.data =>
          \A v \in Vendors, n \in IndexNames, id \in CveIDs :
              (~Member(db, v, n, id) /\ Member(db', v, n, id) /\ ~call'.lost) =>
                  /\ v = call.vendor
                  /\ id = RecId(call.k)
                  /\ GetOne(v, db, id, FALSE) = Ptr(call.cves[call.k])
                  /\ GetOne(v, db', id, FALSE) = Ptr(call.cves[call.k])]_vars

\* In the middle of a record's batch: the HSet, the retention and a ZAdd have
\* been applied, more commands are queued
C18_Witness ==
    /\ call.pc = "exec"
    /\ call.k >= 1
    /\ ~call.lost
    /\ call.queue # <<>>
    /\ call.n - Len(call.queue) >= 3
    /\ \E n \in RecNames(call.k) : Member(db, call.vendor, n, RecId(call.k))

(* C19: the batch of a record without sub-entries is the HSet of its        *)
(* primary record and the retention of that key: no step of the batch       *)
(* changes the members or the timeout of an index key, and when Exec has    *)
(* returned nil the vendor field holds the record and the key carries the   *)
(* timeout of the retention command (unless a timeout <= 0 removed the key).*)
C19_NoSubEntries ==
    [][(call.pc = "exec" /\ call.k >= 1 /\ RecNames(call.k) = {}) =>
          /\ call.n = 2
          /\ Slice(db', AllIndexKeys) = Slice(db, AllIndexKeys)
          /\ (call'.pc = "loop" /\ ~call.lost) =>
                LET key == CveKey(RecId(call.k))
                IN  /\ Has(HGetAll(db', key), call.vendor)
                    /\ HGetAll(db', key)[call.vendor] = Marshal(call.cves[call.k])
                    /\ db'.ttl[key] = IF call.expire = Word(0) THEN 0
                                      ELSE formatSec(Duration(call.expire))]_vars

\* A record without sub-entries has been written with a retention while an
\* index key keeps another timeout
C19_Witness ==
    /\ call.pc = "loop"
    /\ call.k >= 1
    /\ RecNames(call.k) = {}
    /\ ~call.lost
    /\ ~call.broke
    /\ Holds(db, call.vendor, RecId(call.k))
    /\ \E key \in AllIndexKeys :
          /\ Exists(db, key)
          /\ db.ttl[key] # db.ttl[CveKey(RecId(call.k))]

(* C20: with one positive retention and key expiry, a package query of     *)
(* Debian or Ubuntu returns every identifier whose document, read by        *)
(* identifier in the same store, has a sub-entry of the package with a      *)
(* release of the major's codename and a wanted status (no Insert failed).  *)
C20_PointAndFilteredAgree ==
    (/\ ret.op = "GetCves"
     /\ ret.vendor \in {"Debian", "Ubuntu"}
     /\ ~ret.err
     /\ ret.major \in DOMAIN Codenames(ret.vendor)
     /\ ~hist.cut) =>
        \A id \in CveIDs :
            LET one == GetOne(ret.vendor, db, id, FALSE)
            IN  (/\ ~one.nil
                 /\ SubsOf(ret.vendor,
                           Narrowed(ret.vendor, one.doc, ret.pkg,
                                    Codenames(ret.vendor)[ret.major],
                                    WantedStatuses(ret.vendor, ret.fixed))) # <<>>)
                    => id \in DOMAIN ret.res

\* The seconds the key CVE#<cveID> has left in the store d: 0 for a key without
\* timeout
Lifetime(d, cveID) == d.ttl[CveKey(cveID)]

(* C21: no step of an Insert of vendor B changes the lifetime of a document *)
(* of another vendor A under CVE#<id>: the key is still there after the     *)
(* step and has the same timeout (none, or the seconds left since A's       *)
(* write); no Insert has failed.                                            *)
C21_LifetimeOfOtherVendor ==
    [][(call.pc # "idle" /\ ~hist.cut) =>
          \A id \in CveIDs :
              (\E v \in Vendors \ {call.vendor} : Holds(db, v, id)) =>
                  /\ Exists(db', CveKey(id))
                  /\ Lifetime(db', id) = Lifetime(db, id)]_vars

\* The store after the server has applied a list of commands in order
RECURSIVE ApplyAll(_, _)
ApplyAll(d, cmds) ==
    IF cmds = <<>> THEN d ELSE ApplyAll(Apply(d, Head(cmds)), Tail(cmds))

\* The commands of the records i, i+1, ... of an Insert, batch after batch
RECURSIVE BatchesFrom(_, _, _, _)
BatchesFrom(vendor, cves, i, expire) ==
    IF i > Len(cves) THEN <<>>
    ELSE Batch(vendor, cves[i], expire) \o BatchesFrom(vendor, cves, i + 1, expire)

\* The store when the call c, now at the store d, goes on without failure
Completed(d, c) ==
    ApplyAll(d, c.queue \o BatchesFrom(c.vendor, c.cves, c.k + 1, c.expire))

\* The store after one more, fully successful, execution of the Insert of c on d
ExecutedAgain(d, c) ==
    ApplyAll(d, (IF c.vendor = "Microsoft" THEN ProductBatch(c.products, c.expire)
                 ELSE <<>>)
                \o BatchesFrom(c.vendor, c.cves, 1, c.expire))

Running(c) == c.pc \in {"loop", "exec"} \/ (c.pc = "done" /\ ~c.err)

(* C22: Insert is idempotent.  At every point of a call (each is a point    *)
(* where Exec may fail, leaving the commands applied so far), executing the *)
(* same Insert again from the start gives the store that completing the     *)
(* call gives: the same field values, index members and timeouts.  The      *)
(* store a call completes to is the same from its first step to its last,   *)
(* so it is the store of one successful execution; after success, executing *)
(* the Insert again changes nothing.                                        *)
C22_Idempotent ==
    [][(Running(call) /\ Running(call')) =>
          /\ Completed(db', call') = Completed(db, call)
          /\ ExecutedAgain(db', call') = Completed(db', call')]_vars

\* The second execution of an Insert: the record whose batch is about to be
\* applied is stored and indexed already
C22_Witness ==
    /\ call.pc = "exec"
    /\ call.k >= 1
    /\ Len(call.queue) = call.n
    /\ RecNames(call.k) # {}
    /\ Holds(db, call.vendor, RecId(call.k))
    /\ DocOf(db, call.vendor, RecId(call.k)) = call.cves[call.k]
    /\ \A n \in RecNames(call.k) : Member(db, call.vendor, n, RecId(call.k))

\* The calls of Insert the command has made: those that returned and the one
\* in flight
InsertCalls(c, cl) == c.inserts + (IF cl.pc # "idle" THEN 1 ELSE 0)

\* The command has reached its end without a complete Insert for a reason
\* that is no failure: fetchRedHatAPI --list-only after the list was fetched
ListedOnly(c) ==
    c.name = "redhatapi" /\ c.listOnly /\ c.opened /\ c.fresh /\ c.fetched = 1

(* C23: a fetch command calls Insert at most once, and only after the       *)
(* database opened, the fetch metadata was there and not outdated, the      *)
(* input was present (apikey given for microsoft, no --list-only for        *)
(* redhatapi) and both fetches returned without error; it calls             *)
(* UpsertFetchMeta at most once and only after Insert returned nil; it      *)
(* returns nil only after both (or after --list-only), so every failure    *)
(* before or in the Insert returns an error; the store changes only during  *)
(* the Insert.                                                              *)
C23_FetchThenInsert ==
    [][/\ db' # db => (cmd.pc = "Insert" /\ call.pc # "idle")
       /\ cmd'.pc # "none" =>
            /\ InsertCalls(cmd', call') <= 1
            /\ InsertCalls(cmd', call') = 1 =>
                  /\ cmd'.opened
                  /\ cmd'.fresh
                  /\ cmd'.name = "microsoft" => cmd'.apikey
                  /\ cmd'.name = "redhatapi" => ~cmd'.listOnly
                  /\ cmd'.fetched = 2
            /\ cmd'.upserts <= 1
            /\ cmd'.upserts = 1 => (cmd'.inserted = "ok" /\ cmd'.pc = "returned")
            /\ cmd'.pc = "returned" =>
                  /\ cmd'.result \in {"nil", "err"}
                  /\ cmd'.result = "nil" =>
                        \/ cmd'.inserted = "ok" /\ cmd'.upserts = 1
                        \/ ListedOnly(cmd') /\ cmd'.inserts = 0
                  /\ cmd'.inserts = 0 => db' = db]_vars

\* A command has inserted records, upserted the fetch metadata and returned nil
C23_Witness ==
    /\ cmd.pc = "returned"
    /\ cmd.result = "nil"
    /\ cmd.inserted = "ok"
    /\ cmd.upserts = 1
    /\ db.data # <<>>

(* C24: for every retention N > 0 an Insert is called with, the duration    *)
(* time.Duration(expire*uint(time.Second)) is N seconds exactly: it is      *)
(* positive and its whole seconds are N.                                    *)
C24_DurationExact ==
    (call.pc # "idle" /\ call.expire # Word(0)) =>
        LET dur == Duration(call.expire)
        IN  /\ ~IsNegative(dur)
            /\ dur # Word(0)
            /\ Div(Div(Div(dur, Thousand), Thousand), Thousand) = call.expire

=============================================================================
